---- MODULE Spec2Model ----
(***************************************************************************)
(* netrc_util: the nom tokenizer (parser_combinator.rs), the single-pass   *)
(* builder parse_config, and the two accessors RawNetrcParser and          *)
(* NetrcParser with their lazily cached NetrcConfig.                       *)
(*                                                                         *)
(* Text is a sequence of one-character strings.  Option<T> is a set with   *)
(* at most one element: {} is None and {v} is Some(v).                     *)
(***************************************************************************)
EXTENDS Naturals, Sequences, FiniteSets, TLC

VARIABLES
    input,           \* the content of the byte source at construction
    buffer,          \* self.buffer: what a read would still yield
    kind,            \* which accessor type this instance is
    config,          \* self.config: Option<NetrcConfig>
    pc,              \* position inside entry_for_host
    host,            \* the host argument of the running / last call
    reads,           \* number of read_to_string calls made on the buffer
    result,          \* Option of the last call's return value
    rest,            \* tokenize: the remaining input
    tokens,          \* tokenize: the tokens pushed so far
    i,               \* parse_config: the token index (1-based)
    entries,         \* parse_config: the entries map
    default,         \* parse_config: the default entry
    active_machine,  \* parse_config: Option<Host>
    active_entry,    \* parse_config: the entry being filled
    in_default       \* parse_config: the section flag

vars == <<input, buffer, kind, config, pc, host, reads, result, rest, tokens,
          i, entries, default, active_machine, active_entry, in_default>>

----------------------------------------------------------------------------
(* Bounds *)

MaxItems == 4
MaxShortItems == 3
MaxCalls == 2

----------------------------------------------------------------------------
(* Characters and literal strings *)

Whitespace == {" ", "\t", "\n"}

is_whitespace(c) == c \in Whitespace

KwMachine  == <<"m", "a", "c", "h", "i", "n", "e">>
KwLogin    == <<"l", "o", "g", "i", "n">>
KwPassword == <<"p", "a", "s", "s", "w", "o", "r", "d">>
KwAccount  == <<"a", "c", "c", "o", "u", "n", "t">>
KwDefault  == <<"d", "e", "f", "a", "u", "l", "t">>
KwMacdef   == <<"m", "a", "c", "d", "e", "f">>
KwComment  == <<"#", " ">>
BlankLine  == <<"\n", "\n">>
LineBreak  == <<"\n">>

StartsWith(s, p) == Len(s) >= Len(p) /\ SubSeq(s, 1, Len(p)) = p

Drop(s, n) == SubSeq(s, n + 1, Len(s))

\* The positions k such that pat occurs in s right after the first k characters.
\* (Here and below v names the value of the argument, so that an argument
\* given by an expression is computed once.)
Occurrences(s, pat) ==
    UNION {{k \in 0..Len(v) : k + Len(pat) <= Len(v) /\ SubSeq(v, k + 1, k + Len(pat)) = pat} :
              v \in {s}}

Least(S) == CHOOSE n \in UNION {{x \in v : \A m \in v : x <= m} : v \in {S}} : TRUE

----------------------------------------------------------------------------
(* Tokens.  Every token has the same shape; a and b are empty where the    *)
(* variant carries nothing.                                                *)

Tok(k, a, b) == [kind |-> k, a |-> a, b |-> b]

TokMachine  == Tok("Machine", <<>>, <<>>)
TokDefault  == Tok("Default", <<>>, <<>>)
TokLogin    == Tok("Login", <<>>, <<>>)
TokPassword == Tok("Password", <<>>, <<>>)
TokAccount  == Tok("Account", <<>>, <<>>)
TokMacDef(name, content) == Tok("MacDef", name, content)
TokComment(comment) == Tok("Comment", comment, <<>>)
TokText(text) == Tok("Text", text, <<>>)

to_string(t) ==
    CASE t.kind = "Machine"  -> KwMachine
      [] t.kind = "Default"  -> KwDefault
      [] t.kind = "Login"    -> KwLogin
      [] t.kind = "Password" -> KwPassword
      [] t.kind = "Account"  -> KwAccount
      [] t.kind = "MacDef"   -> KwMacdef \o <<" ">> \o t.a \o <<" ">> \o t.b
      [] t.kind = "Comment"  -> KwComment \o t.a
      [] t.kind = "Text"     -> t.a

----------------------------------------------------------------------------
(* nom combinators: an IResult is [ok, rest, out] *)

Ok(r, o) == [ok |-> TRUE, rest |-> r, out |-> o]
Err == [ok |-> FALSE, rest |-> <<>>, out |-> <<>>]

tag(t, s) == IF StartsWith(s, t) THEN Ok(Drop(s, Len(t)), t) ELSE Err

\* take_until(pat): everything before the first occurrence of pat; an error
\* when pat does not occur.
take_until(pat, s) ==
    IF Occurrences(s, pat) = {} THEN Err
    ELSE LET k == Least(Occurrences(s, pat)) IN Ok(Drop(s, k), SubSeq(s, 1, k))

\* The length of the longest prefix of s made of whitespace / of non-whitespace.
WsLen(s) ==
    Least(UNION {{n \in 0..Len(v) : n = Len(v) \/ ~is_whitespace(v[n + 1])} : v \in {s}})

WordLen(s) ==
    Least(UNION {{n \in 0..Len(v) : n = Len(v) \/ is_whitespace(v[n + 1])} : v \in {s}})

drop_whitespace(s) == Ok(Drop(s, WsLen(s)), <<>>)

\* Mutant of word: take_while in place of take_while1, so the empty word matches.
word_AllowsEmpty(s) == Ok(Drop(s, WordLen(s)), SubSeq(s, 1, WordLen(s)))

word(s) ==
    IF WordLen(s) = 0 THEN Err
    ELSE Ok(Drop(s, WordLen(s)), SubSeq(s, 1, WordLen(s)))

machine(s) == LET r == tag(KwMachine, s) IN IF r.ok THEN Ok(r.rest, TokMachine) ELSE Err

login(s) == LET r == tag(KwLogin, s) IN IF r.ok THEN Ok(r.rest, TokLogin) ELSE Err

password(s) == LET r == tag(KwPassword, s) IN IF r.ok THEN Ok(r.rest, TokPassword) ELSE Err

account(s) == LET r == tag(KwAccount, s) IN IF r.ok THEN Ok(r.rest, TokAccount) ELSE Err

default_kw(s) == LET r == tag(KwDefault, s) IN IF r.ok THEN Ok(r.rest, TokDefault) ELSE Err

comment(s) ==
    LET r1 == tag(KwComment, s)
        r2 == take_until(LineBreak, r1.rest)
    IN  IF r1.ok /\ r2.ok THEN Ok(r2.rest, TokComment(r2.out)) ELSE Err

text(s) == LET r == word(s) IN IF r.ok THEN Ok(r.rest, TokText(r.out)) ELSE Err

\* A macro body that the end of the line ends.
macdef_content_EndsAtLineBreak(r3) ==
    LET r4 == take_until(LineBreak, r3.rest)
        r5 == IF r4.ok THEN r4 ELSE Ok(<<>>, r3.rest)
    IN  IF r3.ok THEN Ok(r5.rest, TokMacDef(r3.out, r5.out)) ELSE Err

\* The tail of macdef once the name r3 is parsed: alt((take_until("\n\n"),
\* take_while(|_| true))) and the map to Token::MacDef.
macdef_content(r3) ==
    LET r4 == take_until(BlankLine, r3.rest)
        r5 == IF r4.ok THEN r4 ELSE Ok(<<>>, r3.rest)
    IN  IF r3.ok THEN Ok(r5.rest, TokMacDef(r3.out, r5.out)) ELSE Err

macdef(s) ==
    LET r1 == tag(KwMacdef, s)
        r2 == drop_whitespace(r1.rest)
    IN  IF r1.ok THEN CHOOSE r \in {macdef_content(r3) : r3 \in {word(r2.rest)}} : TRUE
        ELSE Err

\* alt((machine, login, password, account, default, comment, macdef, text))
token(s) ==
    CASE machine(s).ok    -> machine(s)
      [] login(s).ok      -> login(s)
      [] password(s).ok   -> password(s)
      [] account(s).ok    -> account(s)
      [] default_kw(s).ok -> default_kw(s)
      [] comment(s).ok    -> comment(s)
      [] macdef(s).ok     -> macdef(s)
      [] OTHER            -> text(s)

\* tuple((drop_whitespace, token))
ws_token(s) == CHOOSE r \in {token(v) : v \in {drop_whitespace(s).rest}} : TRUE

----------------------------------------------------------------------------
(* Host::parse of the url crate, as far as the builder relies on it: a     *)
(* word with a forbidden host code point is rejected, any other word is a  *)
(* domain and is lower-cased.                                              *)

ForbiddenHostCodePoints == {" ", "\t", "\n", "#", "@"}

ToLower(c) ==
    CASE c = "A" -> "a"
      [] c = "B" -> "b"
      [] OTHER   -> c

\* Option<Host>: Host::parse(w).ok()
HostParse(w) ==
    IF w = <<>> \/ \E k \in 1..Len(w) : w[k] \in ForbiddenHostCodePoints
    THEN {}
    ELSE {[k \in 1..Len(w) |-> ToLower(w[k])]}

----------------------------------------------------------------------------
(* RawEntry, NetrcConfig and the HashMap of entries *)

RawEntry(l, p, a) == [login |-> l, password |-> p, account |-> a]

RawEntryDefault == RawEntry({}, {}, {})

EmptyMap == [h \in {} |-> RawEntryDefault]

\* Mutant of Insert: an existing key keeps its value (first write wins).
Insert_KeepsFirst(map, k, v) ==
    [h \in DOMAIN map \cup {k} |-> IF h \in DOMAIN map THEN map[h] ELSE v]

\* HashMap::insert: the value of an existing key is replaced.
Insert(map, k, v) == [h \in DOMAIN map \cup {k} |-> IF h = k THEN v ELSE map[h]]

\* HashMap::get
Get(map, k) == IF k \in DOMAIN map THEN {map[k]} ELSE {}

NetrcConfig(e, d) == [entries |-> e, default |-> d]

\* tokens.get(k)
TokensGet(toks, k) == IF k \in 1..Len(toks) THEN {toks[k]} ELSE {}

\* tokens.get(k).map(Token::to_string)
ArgString(toks, k) == {to_string(t) : t \in TokensGet(toks, k)}

\* The insert guarded by `if let Some(machine) = active_machine`.
Commit(map, am, ae) == IF am = {} THEN map ELSE Insert(map, CHOOSE m \in am : TRUE, ae)

\* The value parse_config returns from its locals.
ConfigOf(map, am, ae, d) ==
    NetrcConfig(Commit(map, am, ae), IF d = RawEntryDefault THEN {} ELSE {d})

----------------------------------------------------------------------------
(* tokenize and parse_config as functions of the text.  The locals of      *)
(* parse_config form a record st; each match arm maps st to the next st.   *)

\* The while-let loop of tokenize, from the remaining input and the tokens so far.
RECURSIVE tokenize_loop(_, _)
tokenize_loop(s, toks) ==
    IF ~ws_token(s).ok THEN toks
    ELSE tokenize_loop(ws_token(s).rest,
                       IF ws_token(s).out.kind = "Comment" THEN toks
                       ELSE Append(toks, ws_token(s).out))

tokenize(s) == tokenize_loop(s, <<>>)

\* The locals of parse_config before the loop.
Locals0 ==
    [i |-> 1, entries |-> EmptyMap, default |-> RawEntryDefault, active_machine |-> {},
     active_entry |-> RawEntryDefault, in_default |-> FALSE]

\* Mutant of ArmMachine: when the host word is rejected the previous host stays
\* the active one.
ArmMachine_KeepsHostOnFailure(toks, st) ==
    [st EXCEPT !.i = st.i + 2,
               !.in_default = FALSE,
               !.entries = Commit(st.entries, st.active_machine, st.active_entry),
               !.active_machine = IF /\ TokensGet(toks, st.i + 1) # {}
                                     /\ HostParse(to_string(toks[st.i + 1])) # {}
                                  THEN HostParse(to_string(toks[st.i + 1])) ELSE @,
               !.active_entry = IF TokensGet(toks, st.i + 1) # {}
                                THEN RawEntryDefault ELSE @]

ArmMachine(toks, st) ==
    [st EXCEPT !.i = st.i + 2,
               !.in_default = FALSE,
               !.entries = Commit(st.entries, st.active_machine, st.active_entry),
               !.active_machine = IF TokensGet(toks, st.i + 1) # {}
                                  THEN HostParse(to_string(toks[st.i + 1])) ELSE @,
               !.active_entry = IF TokensGet(toks, st.i + 1) # {}
                                THEN RawEntryDefault ELSE @]

\* Mutant of ArmDefault: the `default` keyword drops the pending host.
ArmDefault_ClearsMachine(toks, st) ==
    [st EXCEPT !.i = st.i + 1, !.in_default = TRUE, !.active_machine = {}]

ArmDefault(toks, st) == [st EXCEPT !.i = st.i + 1, !.in_default = TRUE]

\* Mutant of ArmField: an assignment in a default section starts the default
\* record afresh.
ArmField_ResetsDefault(f, toks, st) ==
    IF st.in_default
    THEN [st EXCEPT !.i = st.i + 2,
                    !.default = [RawEntryDefault EXCEPT ![f] = ArgString(toks, st.i + 1)]]
    ELSE [st EXCEPT !.i = st.i + 2, !.active_entry[f] = ArgString(toks, st.i + 1)]

\* The Login, Password and Account arms: f is the field the keyword names.
ArmField(f, toks, st) ==
    IF st.in_default
    THEN [st EXCEPT !.i = st.i + 2, !.default[f] = ArgString(toks, st.i + 1)]
    ELSE [st EXCEPT !.i = st.i + 2, !.active_entry[f] = ArgString(toks, st.i + 1)]

ArmLogin(toks, st) == ArmField("login", toks, st)

ArmPassword(toks, st) == ArmField("password", toks, st)

ArmAccount(toks, st) == ArmField("account", toks, st)

\* Token::MacDef(..) => () and Token::Comment(_) => ()
ArmIgnored(toks, st) == [st EXCEPT !.i = st.i + 1]

\* Mutant of ArmText: the stray word is skipped and the pending host is kept.
ArmText_KeepsMachine(toks, st) == [st EXCEPT !.i = st.i + 1]

ArmText(toks, st) == [st EXCEPT !.i = st.i + 1, !.active_machine = {}]

\* One iteration of the while-let loop of parse_config.
Step(toks, st) ==
    CASE toks[st.i].kind = "Machine"  -> ArmMachine(toks, st)
      [] toks[st.i].kind = "Default"  -> ArmDefault(toks, st)
      [] toks[st.i].kind = "Login"    -> ArmLogin(toks, st)
      [] toks[st.i].kind = "Password" -> ArmPassword(toks, st)
      [] toks[st.i].kind = "Account"  -> ArmAccount(toks, st)
      [] toks[st.i].kind = "Text"     -> ArmText(toks, st)
      [] OTHER                        -> ArmIgnored(toks, st)

RECURSIVE Run(_, _)
Run(toks, st) == IF st.i > Len(toks) THEN st ELSE Run(toks, Step(toks, st))

\* The configuration the builder makes of a token sequence.
build(toks) ==
    LET st == Run(toks, Locals0)
    IN  ConfigOf(st.entries, st.active_machine, st.active_entry, st.default)

parse_config(s) == build(tokenize(s))

----------------------------------------------------------------------------
(* The accessors' resolution of a host against the cached configuration *)

ValidatedEntry(l, p) == [login |-> l, password |-> p]

\* Mutant of Lookup: the default record is preferred to the host's own entry.
Lookup_DefaultFirst(cfg, h) == IF cfg.default # {} THEN cfg.default ELSE Get(cfg.entries, h)

\* Mutant of Lookup: an entry with no field set counts as missing.
Lookup_SkipsEmptyEntry(cfg, h) ==
    IF Get(cfg.entries, h) \notin {{}, {RawEntryDefault}} THEN Get(cfg.entries, h)
    ELSE cfg.default

\* config.entries.get(host).or(config.default.as_ref())
Lookup(cfg, h) == IF Get(cfg.entries, h) # {} THEN Get(cfg.entries, h) ELSE cfg.default

RawResolve(cfg, h) == Lookup(cfg, h)

\* Mutant of LoginOrAccount: the account is preferred to the login.
LoginOrAccount_AccountFirst(e) == IF e.account # {} THEN e.account ELSE e.login

\* entry.login.as_ref().or(entry.account.as_ref())
LoginOrAccount(e) == IF e.login # {} THEN e.login ELSE e.account

\* Mutant of ValidatedResolve: a record without a password is returned with its
\* account in the password's place.
ValidatedResolve_AccountAsPassword(cfg, h) ==
    LET found == Lookup(cfg, h)
    IN  IF found = {} THEN {}
        ELSE LET entry == CHOOSE e \in found : TRUE
                 pw == IF entry.password # {} THEN entry.password ELSE entry.account
             IN  IF pw = {} THEN {}
                 ELSE {ValidatedEntry(LoginOrAccount(entry), CHOOSE p \in pw : TRUE)}

\* Mutant of ValidatedResolve: a host entry without a password falls through to
\* the default record.
ValidatedResolve_FallsThroughToDefault(cfg, h) ==
    LET own == Get(cfg.entries, h)
        found == IF own # {} /\ (\A e \in own : e.password # {}) THEN own ELSE cfg.default
    IN  IF found = {} THEN {}
        ELSE LET entry == CHOOSE e \in found : TRUE
             IN  IF entry.password = {} THEN {}
                 ELSE {ValidatedEntry(LoginOrAccount(entry),
                                      CHOOSE p \in entry.password : TRUE)}

ValidatedResolve(cfg, h) ==
    LET found == Lookup(cfg, h)
    IN  IF found = {} THEN {}
        ELSE LET entry == CHOOSE e \in found : TRUE
             IN  IF entry.password = {} THEN {}
                 ELSE {ValidatedEntry(LoginOrAccount(entry),
                                      CHOOSE p \in entry.password : TRUE)}

Resolve(k, cfg, h) == IF k = "raw" THEN RawResolve(cfg, h) ELSE ValidatedResolve(cfg, h)

ResOk(v) == [tag |-> "Ok", val |-> v]
ResErr == [tag |-> "Err", val |-> {}]

---------------------------------------------------------------------------------------------------------------------------------------------------
(* The inputs.  An item is a piece of netrc text with its leading          *)
(* whitespace; GlueAt has none, so it extends the word before it.  The     *)
(* families: sequences of the items of one host's blocks and the default   *)
(* section, sequences of items that exercise the tokenizer, sequences with *)
(* blocks of two hosts, single `machine H login L password P` blocks over  *)
(* a choice of words and separators, one header with its fields in every   *)
(* order, two default sections around a machine block, a block whose host  *)
(* word is not a host between two blocks that are, and texts that end      *)
(* right after a keyword or inside a macro block.                          *)

Sp == <<" ">>

MachineA  == Sp \o KwMachine \o Sp \o <<"a">>
MachineB  == <<"\t">> \o KwMachine \o <<"\n">> \o <<"B">>
LoginU    == Sp \o KwLogin \o Sp \o <<"u">>
PasswordP == <<"\n">> \o KwPassword \o Sp \o <<"p">>
AccountC  == Sp \o KwAccount \o Sp \o <<"c">>
DefaultKw == Sp \o KwDefault
StrayX    == Sp \o <<"x">>
GlueAt    == <<"@">>
LoginKw   == Sp \o KwLogin
MacdefM   == Sp \o KwMacdef \o Sp \o <<"m">>
CommentC  == Sp \o KwComment \o <<"c">>

CoreItems == {MachineA, LoginU, PasswordP, DefaultKw, StrayX}

TextItems == {MachineA, GlueAt, LoginKw, MacdefM, BlankLine, CommentC}

TwoHostItems == {MachineA, MachineB, LoginU, StrayX}

FieldItems == {LoginU, PasswordP, AccountC}

RECURSIVE Flatten(_)
Flatten(ss) == IF ss = <<>> THEN <<>> ELSE Head(ss) \o Flatten(Tail(ss))

ItemSeqs(items, max) == UNION {[1..n -> items] : n \in 0..max}

CoreInputs == {Flatten(ss) : ss \in ItemSeqs(CoreItems, MaxItems)}

TextInputs == {Flatten(ss) : ss \in ItemSeqs(TextItems, MaxShortItems)}

TwoHostInputs == {Flatten(ss) : ss \in ItemSeqs(TwoHostItems, MaxShortItems)}

\* Words for the single-block family: plain ones, ones equal to a keyword and
\* ones that start with a keyword.
HostWords  == {<<"a">>, <<"B">>, KwAccount \o <<"s">>}
LoginWords == {<<"u">>, KwLogin, KwDefault \o <<"s">>}
PassWords  == {<<"p">>, KwMachine, KwPassword \o <<"x">>}
Separators == {<<" ">>, <<"\n">>, <<"\t", " ">>}

Block(sep, h, l, p) ==
    KwMachine \o sep \o h \o sep \o KwLogin \o sep \o l \o sep \o KwPassword \o sep \o p

BlockInputs ==
    {Block(sep, h, l, p) : sep \in Separators, h \in HostWords, l \in LoginWords,
                           p \in PassWords}

\* One header and then fields, each at most once, in any order.
FieldInputs ==
    {hd \o Flatten(ss) : hd \in {MachineA, DefaultKw},
                          ss \in {fs \in ItemSeqs(FieldItems, Cardinality(FieldItems)) :
                                     \A j, k \in DOMAIN fs : j # k => fs[j] # fs[k]}}

\* Keywords with nothing after them, and a header whose word is not a host.
MachineKw  == Sp \o KwMachine
PasswordKw == Sp \o KwPassword
MacdefKw   == Sp \o KwMacdef
MachineBad == Sp \o KwMachine \o Sp \o <<"@">>
MacroBody  == <<"\n">> \o KwLogin \o Sp \o <<"u">>

\* A default section, a machine block, a second default section.
SectionInputs ==
    {DefaultKw \o f \o MachineA \o g \o DefaultKw \o h :
        f \in FieldItems \cup {LoginKw}, g \in {<<>>, LoginU, PasswordP},
        h \in {LoginU, AccountC, LoginKw, LoginU \o LoginKw}}

\* A block with a rejected host word, with or without blocks around it.
BadHostInputs ==
    {pre \o MachineBad \o f \o post :
        pre \in {<<>>, MachineA \o LoginU}, f \in {<<>>, PasswordP, LoginU \o PasswordP},
        post \in {<<>>, MachineA \o PasswordP, MachineB \o LoginU}}

\* Texts that end right after a keyword, after a macro name or in a macro body.
TailInputs ==
    {pre \o t : pre \in {<<>>, MachineA, MachineA \o LoginU, DefaultKw},
                t \in {MachineKw, LoginKw, PasswordKw, MacdefKw, MacdefM,
                       MacdefM \o MacroBody, MacdefM \o MacroBody \o BlankLine \o PasswordP}}

\* A macro block whose name follows after one blank, a blank line or more,
\* behind nothing, a block, a default section, a field keyword or `machine`,
\* and before blocks and sections that no blank line, or one, parts from it.
MacroGaps == {Sp, BlankLine, BlankLine \o Sp}

MacroInputs ==
    {pre \o MacdefKw \o gap \o <<"m">> \o post :
        pre \in {<<>>, MachineA \o PasswordP, DefaultKw \o LoginU, MachineA \o LoginKw, MachineKw},
        gap \in MacroGaps,
        post \in {MachineA \o PasswordP, LineBreak \o MachineB \o LoginU \o PasswordP,
                  DefaultKw \o PasswordP, BlankLine \o MachineA \o PasswordP,
                  MachineA \o BlankLine \o MachineB \o PasswordP}}

Inputs ==
    CoreInputs \cup TextInputs \cup TwoHostInputs \cup BlockInputs \cup FieldInputs
        \cup SectionInputs \cup BadHostInputs \cup TailInputs \cup MacroInputs

\* What a drained source yields once it has bytes again.
Refilled == MachineA \o PasswordP

\* Everything a read can yield.
Contents == Inputs \cup {<<>>, Refilled}

\* tokenize and the loop of parse_config, tabulated over the contents: what
\* tokenize returns, and the locals of parse_config when its loop ends.
Tokenized == [s \in Contents |-> tokenize(s)]

Built == [s \in Contents |-> Run(Tokenized[s], Locals0)]

\* The hosts a caller asks for (already normalized Host values).
Hosts == {<<"a">>, <<"b">>}

Kinds == {"raw", "validated"}

----------------------------------------------------------------------------
(* The accessor: construction and the entry_for_host calls *)

Init ==
    /\ buffer \in Inputs
    /\ kind \in Kinds
    /\ input = <<>>
    /\ config = {}
    /\ pc = "idle"
    /\ host = <<"a">>
    /\ reads = 0
    /\ result = {}
    /\ rest = <<>>
    /\ tokens = <<>>
    /\ i = 1
    /\ entries = EmptyMap
    /\ default = RawEntryDefault
    /\ active_machine = {}
    /\ active_entry = RawEntryDefault
    /\ in_default = FALSE

parseVars == <<input, rest, tokens, i, entries, default, active_machine,
               active_entry, in_default>>

\* Mutant of CallReadFails: the failed read is swallowed and what it left in the
\* string (nothing) is parsed and cached.
CallReadFails_ParsesPartial(h) ==
    /\ pc = "idle"
    /\ reads < MaxCalls
    /\ reads' = reads + 1
    /\ host' = h
    /\ buffer' \in {buffer, <<>>}
    /\ config' = IF config = {} THEN {NetrcConfig(EmptyMap, {})} ELSE config
    /\ result' = {ResOk({})}
    /\ UNCHANGED <<kind, pc, parseVars>>

\* entry_for_host, read_to_string fails: the `?` returns the error.  What the
\* failed read consumed is up to the source.
CallReadFails(h) ==
    /\ pc = "idle"
    /\ reads < MaxCalls
    /\ reads' = reads + 1
    /\ host' = h
    /\ buffer' \in {buffer, <<>>}
    /\ result' = {ResErr}
    /\ UNCHANGED <<kind, config, pc, parseVars>>

\* Mutant of CallCached: the cached configuration is ignored and what the read
\* yields is parsed and cached again.
CallCached_Reparses(h) ==
    /\ pc = "idle"
    /\ reads < MaxCalls
    /\ config # {}
    /\ reads' = reads + 1
    /\ host' = h
    /\ buffer' = <<>>
    /\ config' = {parse_config(buffer)}
    /\ result' = {ResOk(Resolve(kind, parse_config(buffer), h))}
    /\ UNCHANGED <<kind, pc, parseVars>>

\* entry_for_host, the read succeeds and self.config is Some: the cached
\* configuration answers.
CallCached(h) ==
    /\ pc = "idle"
    /\ reads < MaxCalls
    /\ config # {}
    /\ reads' = reads + 1
    /\ host' = h
    /\ buffer' = <<>>
    /\ result' = {ResOk(Resolve(kind, CHOOSE c \in config : TRUE, h))}
    /\ UNCHANGED <<kind, config, pc, parseVars>>

\* entry_for_host, the read succeeds and self.config is None: parse_config
\* runs on what was read, the configuration is cached and answers.  The
\* locals of parse_config are left as they are when it returns.
CallParse(h) ==
    /\ pc = "idle"
    /\ reads < MaxCalls
    /\ config = {}
    /\ \E toks \in {Tokenized[buffer]} :
       \E st \in {Built[buffer]} :
       \E cfg \in {ConfigOf(st.entries, st.active_machine, st.active_entry, st.default)} :
           /\ tokens' = toks
           /\ i' = st.i
           /\ entries' = cfg.entries
           /\ default' = st.default
           /\ active_machine' = st.active_machine
           /\ active_entry' = st.active_entry
           /\ in_default' = st.in_default
           /\ config' = {cfg}
           /\ result' = {ResOk(Resolve(kind, cfg, h))}
    /\ reads' = reads + 1
    /\ host' = h
    /\ buffer' = <<>>
    /\ input' = buffer
    /\ UNCHANGED <<kind, pc, rest>>

\* A source that yields bytes again after it was drained.
SourceRefill ==
    /\ pc = "idle"
    /\ reads > 0
    /\ buffer = <<>>
    /\ buffer' = Refilled
    /\ UNCHANGED <<kind, config, pc, host, reads, result, parseVars>>

----------------------------------------------------------------------------
(* The first parsing call step by step: one action per iteration of the    *)
(* loop of tokenize and per match arm of the loop of parse_config.         *)

\* The first call has read the source and enters parse_config.
InitParse ==
    /\ input \in Inputs
    /\ rest = input
    /\ buffer = <<>>
    /\ kind \in Kinds
    /\ host \in Hosts
    /\ config = {}
    /\ pc = "tokenize"
    /\ reads = 1
    /\ result = {}
    /\ tokens = <<>>
    /\ i = 1
    /\ entries = EmptyMap
    /\ default = RawEntryDefault
    /\ active_machine = {}
    /\ active_entry = RawEntryDefault
    /\ in_default = FALSE

\* tokenize: one iteration of the while-let loop.
TokenizeStep ==
    /\ pc = "tokenize"
    /\ \E r \in {ws_token(rest)} :
           /\ r.ok
           /\ rest' = r.rest
           /\ tokens' = IF r.out.kind = "Comment" THEN tokens ELSE Append(tokens, r.out)
    /\ UNCHANGED <<input, buffer, kind, config, pc, host, reads, result, i, entries,
                   default, active_machine, active_entry, in_default>>

\* tokenize returns; parse_config initialises its locals.
TokenizeEnd ==
    /\ pc = "tokenize"
    /\ \E r \in {ws_token(rest)} : ~r.ok
    /\ pc' = "build"
    /\ i' = Locals0.i
    /\ entries' = Locals0.entries
    /\ default' = Locals0.default
    /\ active_machine' = Locals0.active_machine
    /\ active_entry' = Locals0.active_entry
    /\ in_default' = Locals0.in_default
    /\ UNCHANGED <<input, buffer, kind, config, host, reads, result, rest, tokens>>

accessorVars == <<input, buffer, kind, config, pc, host, reads, result, rest, tokens>>

\* The locals of parse_config in the current state, and their update.
Locals ==
    [i |-> i, entries |-> entries, default |-> default,
     active_machine |-> active_machine, active_entry |-> active_entry,
     in_default |-> in_default]

SetLocals(st) ==
    /\ i' = st.i
    /\ entries' = st.entries
    /\ default' = st.default
    /\ active_machine' = st.active_machine
    /\ active_entry' = st.active_entry
    /\ in_default' = st.in_default

\* The loop of parse_config is at a token of kind k.
At(k) == pc = "build" /\ i <= Len(tokens) /\ tokens[i].kind = k

StepMachine == At("Machine") /\ SetLocals(ArmMachine(tokens, Locals)) /\ UNCHANGED accessorVars

StepDefault == At("Default") /\ SetLocals(ArmDefault(tokens, Locals)) /\ UNCHANGED accessorVars

StepLogin == At("Login") /\ SetLocals(ArmLogin(tokens, Locals)) /\ UNCHANGED accessorVars

StepPassword == At("Password") /\ SetLocals(ArmPassword(tokens, Locals)) /\ UNCHANGED accessorVars

StepAccount == At("Account") /\ SetLocals(ArmAccount(tokens, Locals)) /\ UNCHANGED accessorVars

StepIgnored ==
    /\ (At("MacDef") \/ At("Comment"))
    /\ SetLocals(ArmIgnored(tokens, Locals))
    /\ UNCHANGED accessorVars

StepText == At("Text") /\ SetLocals(ArmText(tokens, Locals)) /\ UNCHANGED accessorVars

\* The loop is over: parse_config commits the pending entry and returns;
\* entry_for_host caches the configuration and resolves the host.
Finish ==
    /\ pc = "build" /\ i > Len(tokens)
    /\ entries' = Commit(entries, active_machine, active_entry)
    /\ config' = {ConfigOf(entries, active_machine, active_entry, default)}
    /\ result' = {ResOk(Resolve(kind,
                    ConfigOf(entries, active_machine, active_entry, default), host))}
    /\ pc' = "idle"
    /\ UNCHANGED <<input, buffer, kind, host, reads, rest, tokens, i, default,
                   active_machine, active_entry, in_default>>

Next ==
    \/ \E h \in Hosts : CallReadFails(h)
    \/ \E h \in Hosts : CallCached(h)
    \/ \E h \in Hosts : CallParse(h)
    \/ SourceRefill

NextParse ==
    \/ TokenizeStep
    \/ TokenizeEnd
    \/ StepMachine
    \/ StepDefault
    \/ StepLogin
    \/ StepPassword
    \/ StepAccount
    \/ StepIgnored
    \/ StepText
    \/ Finish

Spec == Init /\ [][Next]_vars

SpecParse == InitParse /\ [][NextParse]_vars

\* parse_config runs to its end: a loop whose condition holds takes its next
\* iteration.
SpecParseFair == SpecParse /\ WF_vars(NextParse)

----------------------------------------------------------------------------
(* Vocabulary of the properties *)

\* The cached configuration (of a state in which there is one).
Cfg == CHOOSE c \in config : TRUE

\* A call has returned Ok and nothing has happened since: result answers host.
Returned == pc = "idle" /\ result # {} /\ result # {ResErr}

ReturnedValue == (CHOOSE r \in result : TRUE).val

\* A call has parsed input into tokens and cached the configuration.
Parsed == pc = "idle" /\ config # {}

\* The words of a text: its maximal whitespace-free runs, in order.
RECURSIVE Words(_)
Words(s) ==
    LET t == Drop(s, WsLen(s))
    IN  IF t = <<>> THEN <<>>
        ELSE <<SubSeq(t, 1, WordLen(t))>> \o Words(Drop(t, WordLen(t)))

\* The token a whole word stands for.
Classify(w) ==
    CASE w = KwMachine  -> TokMachine
      [] w = KwDefault  -> TokDefault
      [] w = KwLogin    -> TokLogin
      [] w = KwPassword -> TokPassword
      [] w = KwAccount  -> TokAccount
      [] OTHER          -> TokText(w)

Contains(s, pat) == Occurrences(s, pat) # {}

\* No word of the text merely starts with a keyword: on such a text the prefix
\* match of the keyword parsers and a whole-word match agree.
NoKeywordPrefix(s) ==
    \A k \in 1..Len(Words(s)) :
        \A kw \in {KwMachine, KwDefault, KwLogin, KwPassword, KwAccount, KwMacdef} :
            StartsWith(Words(s)[k], kw) => Words(s)[k] = kw

----------------------------------------------------------------------------
(* C1: for every input that is one block `machine H login L password P`,  *)
(* separated by non-empty whitespace, with H a word the host normalizer    *)
(* accepts and L, P any words (also words equal to or starting with a      *)
(* keyword), the raw lookup of normalize(H) is {login L, password P, no    *)
(* account}.                                                               *)
C1_RawBlockLookup ==
    (Parsed /\ input \in BlockInputs) =>
        \A sep \in Separators, h \in HostWords, l \in LoginWords, p \in PassWords :
            (input = Block(sep, h, l, p) /\ HostParse(h) # {}) =>
                RawResolve(Cfg, CHOOSE n \in HostParse(h) : TRUE)
                    = {RawEntry({l}, {p}, {})}

\* The plain-word part of C1 (no word equals or starts with a keyword).
C1_PlainWordsOnly ==
    (Parsed /\ input \in BlockInputs) =>
        \A sep \in Separators, h \in {<<"a">>, <<"B">>} :
            input = Block(sep, h, <<"u">>, <<"p">>) =>
                RawResolve(Cfg, CHOOSE n \in HostParse(h) : TRUE)
                    = {RawEntry({<<"u">>}, {<<"p">>}, {})}

----------------------------------------------------------------------------
(* C2: NetrcParser::entry_for_host never returns an entry without a        *)
(* password: when the record resolved for the host (its own, else the      *)
(* default) has no password the result is Ok(None), whatever its login or  *)
(* account; a returned entry carries the resolved record's password.       *)

\* The record the configuration resolves h to: its own, else the default.
ResolvedRecord(cfg, h) == IF h \in DOMAIN cfg.entries THEN {cfg.entries[h]} ELSE cfg.default

C2_PasswordMandatory ==
    (Returned /\ kind = "validated") =>
        LET rec == ResolvedRecord(Cfg, host)
        IN  /\ (rec = {} \/ \A r \in rec : r.password = {}) => ReturnedValue = {}
            /\ \A e \in ReturnedValue : \A r \in rec : r.password = {e.password}

\* A record with a login or an account but no password was resolved.
C2_Witness ==
    /\ Returned /\ kind = "validated"
    /\ \E r \in ResolvedRecord(Cfg, host) :
           r.password = {} /\ (r.login # {} \/ r.account # {})
    /\ ReturnedValue = {}

----------------------------------------------------------------------------
(* C3: fields never cross record boundaries.  When the configuration has   *)
(* an entry for the queried host, both accessors answer from that entry    *)
(* alone, also when it has no password and the default has one; the        *)
(* default is used, whole, only when the host has no entry.                *)

\* What an accessor of kind k makes of one record.
FromRecord(k, r) ==
    IF k = "raw" THEN {r}
    ELSE IF r.password = {} THEN {}
    ELSE {[login |-> IF r.login # {} THEN r.login ELSE r.account,
           password |-> CHOOSE p \in r.password : TRUE]}

C3_NoHybrid ==
    Returned =>
        IF host \in DOMAIN Cfg.entries
        THEN ReturnedValue = FromRecord(kind, Cfg.entries[host])
        ELSE IF Cfg.default = {} THEN ReturnedValue = {}
        ELSE ReturnedValue = FromRecord(kind, CHOOSE d \in Cfg.default : TRUE)

\* The host's entry is incomplete, the default is complete, and the validated
\* lookup answers None.
C3_Witness ==
    /\ Returned /\ kind = "validated"
    /\ host \in DOMAIN Cfg.entries
    /\ Cfg.entries[host].password = {} /\ Cfg.entries[host].login # {}
    /\ \E d \in Cfg.default : d.password # {}
    /\ ReturnedValue = {}

----------------------------------------------------------------------------
(* C4: keyword recognition is a whole-word match.  Outside comments and    *)
(* macro blocks every word of the input yields exactly one token: the      *)
(* keyword token iff the word is exactly a keyword, else one Text token    *)
(* carrying the whole word.                                                *)
C4_WholeWordTokens ==
    (Parsed /\ ~Contains(input, <<"#">>) /\ ~Contains(input, KwMacdef)) =>
        tokens = [k \in 1..Len(Words(input)) |-> Classify(Words(input)[k])]

----------------------------------------------------------------------------
(* C5: over any sequence of calls on one accessor, the byte source is read *)
(* only during the first call, and a later call for the same host returns  *)
(* what the first returned, even when the source would fail or yield other *)
(* bytes on a second read.                                                 *)
C5_ReadOnce ==
    [][Parsed => /\ reads' = reads
                 /\ result' # result => result' = {ResOk(Resolve(kind, Cfg, host'))}]_vars

----------------------------------------------------------------------------
(* Blocks of a token sequence, as the properties speak of them.  A token   *)
(* is at top level unless it is the word consumed by the machine, login,   *)
(* password or account keyword before it.  The block of a `machine` header *)
(* runs to the next top-level `machine` keyword or to the end of input.    *)

ArgTakers == {"Machine", "Login", "Password", "Account"}

RECURSIVE TopFrom(_, _)
TopFrom(toks, p) ==
    IF p > Len(toks) THEN {}
    ELSE {p} \cup TopFrom(toks, IF toks[p].kind \in ArgTakers THEN p + 2 ELSE p + 1)

TopLevel(toks) == TopFrom(toks, 1)

Headers(toks) == {k \in TopLevel(toks) : toks[k].kind = "Machine"}

BlockEnd(toks, k) ==
    LET later == {m \in Headers(toks) : m > k}
    IN  IF later = {} THEN Len(toks) + 1 ELSE Least(later)

\* The normalized host of the header at k: none when the word is missing or
\* is not accepted.
HeaderHost(toks, k) ==
    IF k + 1 <= Len(toks) THEN HostParse(to_string(toks[k + 1])) ELSE {}

\* The unrecognized bare words inside the block of the header at k.
Strays(toks, k) ==
    {t \in TopLevel(toks) : k < t /\ t < BlockEnd(toks, k) /\ toks[t].kind = "Text"}

WellFormed(toks, k) == HeaderHost(toks, k) # {} /\ Strays(toks, k) = {}

\* The headers of the blocks for host h.
BlocksFor(toks, h) == {k \in Headers(toks) : HeaderHost(toks, k) = {h}}

HeaderHosts(toks) == UNION {HeaderHost(toks, k) : k \in Headers(toks)}

FieldOf(k) ==
    CASE k = "Login"    -> "login"
      [] k = "Password" -> "password"
      [] k = "Account"  -> "account"

\* The record a block spells out: the field keywords from position p up to e,
\* those of a default section excluded.
RECURSIVE FieldsFrom(_, _, _, _, _)
FieldsFrom(toks, p, e, ind, rec) ==
    IF p >= e THEN rec
    ELSE CASE toks[p].kind = "Default" -> FieldsFrom(toks, p + 1, e, TRUE, rec)
           [] toks[p].kind \in {"Login", "Password", "Account"} ->
                FieldsFrom(toks, p + 2, e, ind,
                           IF ind THEN rec
                           ELSE [rec EXCEPT ![FieldOf(toks[p].kind)] = ArgString(toks, p + 1)])
           [] OTHER -> FieldsFrom(toks, p + 1, e, ind, rec)

BlockRecord(toks, k) == FieldsFrom(toks, k + 2, BlockEnd(toks, k), FALSE, RawEntryDefault)

Greatest(S) == CHOOSE n \in S : \A m \in S : m <= n

----------------------------------------------------------------------------
(* C6: an unrecognized bare word between a `machine H` header and the next *)
(* `machine` keyword or the end of input keeps that block from ever being  *)
(* committed, whatever fields it assigns before or after the word: H has   *)
(* no entry unless another block gives it one, and its lookup is absent    *)
(* when there is no default.  A later well-formed block still resolves to  *)
(* its own fields.                                                         *)
C6_StrayWordInvalidatesBlock ==
    Parsed =>
        /\ \A h \in HeaderHosts(tokens) :
               (\A k \in BlocksFor(tokens, h) : Strays(tokens, k) # {}) =>
                   /\ h \notin DOMAIN Cfg.entries
                   /\ (Returned /\ host = h /\ Cfg.default = {}) => ReturnedValue = {}
        /\ \A k \in Headers(tokens), m \in Headers(tokens) :
               ( /\ Strays(tokens, k) # {} /\ k < m /\ WellFormed(tokens, m)
                 /\ \A n \in Headers(tokens) :
                        (n > m /\ WellFormed(tokens, n)) =>
                            HeaderHost(tokens, n) # HeaderHost(tokens, m) ) =>
                   \A h \in HeaderHost(tokens, m) :
                       /\ h \in DOMAIN Cfg.entries
                       /\ Cfg.entries[h] = BlockRecord(tokens, m)

\* A block assigns a field, then has a stray word, then assigns another field;
\* its host has no entry and its lookup is absent.
C6_Witness ==
    /\ Returned
    /\ \E k \in Headers(tokens) : \E t \in Strays(tokens, k) :
           /\ HeaderHost(tokens, k) = {host}
           /\ \E p \in TopLevel(tokens) : k < p /\ p < t /\ tokens[p].kind \in {"Login", "Password", "Account"}
           /\ \E p \in TopLevel(tokens) :
                  t < p /\ p < BlockEnd(tokens, k) /\ tokens[p].kind \in {"Login", "Password", "Account"}
    /\ host \notin DOMAIN Cfg.entries
    /\ ReturnedValue = {}

----------------------------------------------------------------------------
(* C7: an unrecognized bare word invalidates only the smallest block that  *)
(* encloses it: a machine block that was ended by a later `machine` or     *)
(* `default` keyword before the word keeps its entry, as for               *)
(* `machine A login u password p default login d foo`.                     *)

\* Where the block of the header at k ends when `default` ends it too.
SectionEnd(toks, k) ==
    LET later == {m \in TopLevel(toks) : m > k /\ toks[m].kind \in {"Machine", "Default"}}
    IN  IF later = {} THEN Len(toks) + 1 ELSE Least(later)

C7_OnlyEnclosingBlock ==
    (Parsed /\ NoKeywordPrefix(input)) =>
        \A k \in Headers(tokens) :
            ( /\ SectionEnd(tokens, k) <= Len(tokens)
              /\ \A t \in TopLevel(tokens) :
                     (k < t /\ t < SectionEnd(tokens, k)) => tokens[t].kind # "Text" ) =>
                \A h \in HeaderHost(tokens, k) : h \in DOMAIN Cfg.entries

----------------------------------------------------------------------------
(* C8: duplicate hosts are last-write-wins without merging.  When two or   *)
(* more well-formed machine blocks normalize to the same host, the lookup  *)
(* of that host is exactly the record of the last of them: a field only an *)
(* earlier block assigns is absent.                                        *)
C8_LastBlockWins ==
    Parsed =>
        \A h \in HeaderHosts(tokens) :
            LET good == {k \in BlocksFor(tokens, h) : WellFormed(tokens, k)}
            IN  Cardinality(good) >= 2 =>
                    /\ h \in DOMAIN Cfg.entries
                    /\ Cfg.entries[h] = BlockRecord(tokens, Greatest(good))
                    /\ (Returned /\ host = h /\ kind = "raw") =>
                           ReturnedValue = {BlockRecord(tokens, Greatest(good))}

\* Two well-formed blocks for the queried host; the earlier one assigns a login
\* the later one does not, and the raw lookup has no login.
C8_Witness ==
    /\ Returned /\ kind = "raw"
    /\ \E k \in BlocksFor(tokens, host), m \in BlocksFor(tokens, host) :
           /\ k < m /\ WellFormed(tokens, k) /\ WellFormed(tokens, m)
           /\ BlockRecord(tokens, k).login # {}
           /\ BlockRecord(tokens, m).login = {}
           /\ BlockRecord(tokens, m).password # {}
    /\ \E e \in ReturnedValue : e.login = {} /\ e.password # {}

----------------------------------------------------------------------------
(* C9: macro blocks are inert.  No entry and no default field comes from a *)
(* word inside a macdef block, a MacDef token changes none of the          *)
(* builder's active_machine, active_entry, default, in_default, and the    *)
(* tokens after the block are parsed normally: the configuration is the    *)
(* one the builder makes of the tokens without the MacDef tokens.          *)
NotMacDef(t) == t.kind # "MacDef"

C9_MacroInert == (Parsed /\ NoKeywordPrefix(input)) => Cfg = build(SelectSeq(tokens, NotMacDef))

\* The part of C9 that holds: MacDef tokens at top level are inert.
C9_TopLevelMacroInert ==
    (Parsed /\ \A p \in 1..Len(tokens) : tokens[p].kind = "MacDef" => p \in TopLevel(tokens)) =>
        Cfg = build(SelectSeq(tokens, NotMacDef))

----------------------------------------------------------------------------
(* C10: comments are dropped at the tokenizer boundary.  Wherever `# `     *)
(* starts a token, nothing from there to the end of the line reaches the   *)
(* builder, also on a last line that has no line break; a `#` not followed *)
(* by a space is ordinary text.                                            *)

\* The text without its comments (of a text without macro blocks).
RECURSIVE StripComments(_)
StripComments(s) ==
    LET n == WsLen(s)
        t == Drop(s, n)
        e == IF Contains(t, LineBreak) THEN Least(Occurrences(t, LineBreak)) ELSE Len(t)
    IN  IF t = <<>> THEN s
        ELSE IF StartsWith(t, KwComment) THEN SubSeq(s, 1, n) \o StripComments(Drop(t, e))
        ELSE SubSeq(s, 1, n + WordLen(t)) \o StripComments(Drop(t, WordLen(t)))

C10_CommentsDropped ==
    (Parsed /\ ~Contains(input, KwMacdef) /\ NoKeywordPrefix(input)) =>
        tokens = tokenize(StripComments(input))

\* The part of C10 that holds: comments that a line break ends.
C10_TerminatedCommentsDropped ==
    (Parsed /\ ~Contains(input, KwMacdef) /\ NoKeywordPrefix(input)
        /\ \A k \in Occurrences(input, KwComment) : Contains(Drop(input, k), LineBreak)) =>
        tokens = tokenize(StripComments(input))

----------------------------------------------------------------------------
(* C11: login resolution of NetrcParser::entry_for_host.  When the record  *)
(* resolved for the host has a password, the returned login is the         *)
(* record's login if present, otherwise its account, otherwise absent; the *)
(* account is never returned when a login is present, in whatever order    *)
(* the block assigns login, account and password.                          *)

\* The positions of the top-level tokens of kind k.
KeywordsAt(toks, k) == {p \in TopLevel(toks) : toks[p].kind = k}

C11_LoginElseAccount ==
    (Returned /\ kind = "validated") =>
        \A r \in ResolvedRecord(Cfg, host) :
            r.password # {} =>
                /\ Cardinality(ReturnedValue) = 1
                /\ \A e \in ReturnedValue :
                       /\ r.login # {} => e.login = r.login
                       /\ (r.login = {} /\ r.account # {}) => e.login = r.account
                       /\ (r.login = {} /\ r.account = {}) => e.login = {}

\* A block assigns its account before its login, and the login is returned.
C11_Witness ==
    /\ Returned /\ kind = "validated"
    /\ \E a \in KeywordsAt(tokens, "Account"), l \in KeywordsAt(tokens, "Login") : a < l
    /\ \E r \in ResolvedRecord(Cfg, host) :
           /\ r.login # {} /\ r.account # {} /\ r.account # r.login /\ r.password # {}
           /\ \E e \in ReturnedValue : e.login = r.login

----------------------------------------------------------------------------
(* C12: RawNetrcParser::entry_for_host(h) returns the configuration's      *)
(* entry for h whenever there is one, unvalidated, also when its three     *)
(* fields are absent; otherwise the default record when there is one; and  *)
(* Ok(None) only when there is neither.                                    *)
C12_RawLookup ==
    (Returned /\ kind = "raw") =>
        /\ host \in DOMAIN Cfg.entries => ReturnedValue = {Cfg.entries[host]}
        /\ (host \notin DOMAIN Cfg.entries /\ Cfg.default # {}) => ReturnedValue = Cfg.default
        /\ ReturnedValue = {} <=> (host \notin DOMAIN Cfg.entries /\ Cfg.default = {})

\* The host's entry has no field, there is a default record, and the raw lookup
\* returns the empty entry.
C12_Witness ==
    /\ Returned /\ kind = "raw"
    /\ host \in DOMAIN Cfg.entries
    /\ Cfg.entries[host] = RawEntryDefault
    /\ Cfg.default # {}
    /\ ReturnedValue = {RawEntryDefault}

----------------------------------------------------------------------------
(* C13: when reading or decoding the byte source fails during an           *)
(* entry_for_host call, the call returns an error (not Ok(None), not a     *)
(* record, nothing partially parsed) and the cached configuration is what  *)
(* it was before the call, still unset if it was unset.                    *)
C13_ReadFailureIsError ==
    [][(\E h \in Hosts : CallReadFails(h)) =>
           /\ result' = {ResErr}
           /\ config' = config
           /\ tokens' = tokens /\ entries' = entries /\ default' = default]_vars

\* A call failed to read while nothing was cached, and nothing is cached.
C13_Witness == pc = "idle" /\ reads > 0 /\ result = {ResErr} /\ config = {} /\ tokens = <<>>

----------------------------------------------------------------------------
(* C14: if a host's own machine block has no password but a default        *)
(* section supplies one, the validated lookup for that host yields the     *)
(* default's password, and the returned entry never merges the host's own  *)
(* login with it.                                                          *)

\* The queried host has an entry without a password and the default record has
\* a password.
IncompleteHostCompleteDefault ==
    /\ Returned /\ kind = "validated"
    /\ host \in DOMAIN Cfg.entries
    /\ Cfg.entries[host].password = {}
    /\ \E d \in Cfg.default : d.password # {}

C14_DefaultPasswordForIncompleteHost ==
    IncompleteHostCompleteDefault =>
        \E e \in ReturnedValue : \E d \in Cfg.default :
            /\ {e.password} = d.password
            /\ e.login = LoginOrAccount(d)

\* C14 as amended: in that case the validated lookup is Ok(None); neither the
\* default's password nor any field of the host's own entry is returned.
C14_IncompleteHostYieldsNone == IncompleteHostCompleteDefault => ReturnedValue = {}

\* `machine H login ..` without a password, a default section with another login
\* or account and a password, and the validated lookup of H is absent.
C14_Witness ==
    /\ IncompleteHostCompleteDefault
    /\ Cfg.entries[host].login # {}
    /\ \E d \in Cfg.default :
           LoginOrAccount(d) # {} /\ LoginOrAccount(d) # Cfg.entries[host].login
    /\ KeywordsAt(tokens, "Default") # {}
    /\ ReturnedValue = {}

----------------------------------------------------------------------------
(* C15: the accessor goes from unparsed to parsed at most once.  Once a    *)
(* lookup has stored the configuration, no later entry_for_host call, for  *)
(* any host and whatever the byte source returns afterwards, changes the   *)
(* stored configuration or runs the builder again, and every later         *)
(* successful lookup is answered from that same configuration.             *)
C15_ParsedOnce ==
    [][config # {} =>
           /\ config' = config
           /\ input' = input /\ tokens' = tokens /\ i' = i
           /\ entries' = entries /\ default' = default
           /\ (reads' # reads /\ result' # {ResErr}) =>
                  result' = {ResOk(Resolve(kind, Cfg, host'))}]_vars

\* Two calls were made, the configuration is the one parsed from the first
\* content of the source, and the last answer is the one that configuration
\* gives, which is not the one the refilled source's content would give.
C15_Witness ==
    /\ Returned /\ reads = 2 /\ config # {} /\ input # <<>>
    /\ Cfg = parse_config(input)
    /\ ReturnedValue = Resolve(kind, Cfg, host)
    /\ ReturnedValue # Resolve(kind, parse_config(Refilled), host)

----------------------------------------------------------------------------
(* Sections of a token sequence.  A top-level token is in a default        *)
(* section when the last top-level `machine` or `default` keyword before   *)
(* it is a `default`.                                                      *)

FieldKinds == {"Login", "Password", "Account"}

InDefaultSection(toks, p) ==
    LET before == {m \in TopLevel(toks) : m < p /\ toks[m].kind \in {"Machine", "Default"}}
    IN  before # {} /\ toks[Greatest(before)].kind = "Default"

\* The top-level field keywords of the default sections.
DefaultFields(toks) ==
    {p \in TopLevel(toks) : toks[p].kind \in FieldKinds /\ InDefaultSection(toks, p)}

\* The value field f has after the assignments at the positions ps, taken in
\* order: that of the last one that names f, absent when none does.
LastAssigned(toks, ps, f) ==
    LET named == {p \in ps : FieldOf(toks[p].kind) = f}
    IN  IF named = {} THEN {} ELSE ArgString(toks, Greatest(named) + 1)

\* The record accumulated over all default sections.
DefaultRecord(toks) ==
    [f \in {"login", "password", "account"} |-> LastAssigned(toks, DefaultFields(toks), f)]

----------------------------------------------------------------------------
(* C16: the configuration's default is None exactly when no default        *)
(* section of the input ever assigned a non-absent value to a field;       *)
(* otherwise it is the single record accumulated over all default          *)
(* sections, in which a later assignment to a field overwrites the earlier *)
(* value of that field only.                                               *)
C16_DefaultAccumulates ==
    Parsed =>
        /\ Cfg.default = {} <=>
               ~ \E p \in DefaultFields(tokens) : ArgString(tokens, p + 1) # {}
        /\ Cfg.default # {} => Cfg.default = {DefaultRecord(tokens)}

\* C16 as amended: the default is None exactly when every field of the record
\* accumulated over all default sections is absent, which is also the case
\* when each value a section assigned was overwritten by the absent value of a
\* field keyword at the end of the input; otherwise it is that record.
C16_DefaultIsAccumulatedRecord ==
    Parsed =>
        /\ Cfg.default = {} <=> DefaultRecord(tokens) = RawEntryDefault
        /\ Cfg.default # {} => Cfg.default = {DefaultRecord(tokens)}

\* Two default sections with a machine header between them assign different
\* fields, and the default record has both.
C16_Witness ==
    /\ Parsed
    /\ \E p \in DefaultFields(tokens), q \in DefaultFields(tokens) :
           /\ \E m \in Headers(tokens) : p < m /\ m < q
           /\ tokens[p].kind # tokens[q].kind
           /\ \E d \in Cfg.default :
                  /\ d[FieldOf(tokens[p].kind)] = ArgString(tokens, p + 1)
                  /\ d[FieldOf(tokens[q].kind)] = ArgString(tokens, q + 1)
                  /\ d[FieldOf(tokens[p].kind)] # {}
                  /\ d[FieldOf(tokens[q].kind)] # {}

----------------------------------------------------------------------------
(* C17: field routing by section.  A login/password/account keyword after  *)
(* a `default` keyword and before the next `machine` keyword assigns only  *)
(* to the default record and leaves the pending machine record unchanged;  *)
(* in every other position it assigns only to the active machine record    *)
(* and leaves the default record unchanged.  A `default` keyword neither   *)
(* commits, resets nor clears the pending host, so a well-formed machine   *)
(* block resolves to its own record whether a well-formed default section  *)
(* comes before or after it, and other hosts resolve to the default.       *)

\* No stray word at top level and every header names a host.
AllWellFormed(toks) ==
    /\ \A t \in TopLevel(toks) : toks[t].kind # "Text"
    /\ \A k \in Headers(toks) : HeaderHost(toks, k) # {}

\* The configuration of a well-formed token sequence: every host has the
\* record of its last block, the default is the accumulated default record.
SectionsResolve ==
    (pc = "idle" /\ config # {} /\ AllWellFormed(tokens)) =>
        /\ DOMAIN Cfg.entries = HeaderHosts(tokens)
        /\ \A h \in HeaderHosts(tokens) :
               Cfg.entries[h] = BlockRecord(tokens, Greatest(BlocksFor(tokens, h)))
        /\ Cfg.default = IF DefaultRecord(tokens) = RawEntryDefault THEN {}
                         ELSE {DefaultRecord(tokens)}
        /\ (result # {} /\ host \notin HeaderHosts(tokens)) =>
               ReturnedValue = UNION {FromRecord(kind, d) : d \in Cfg.default}

C17_FieldRouting ==
    [][/\ (StepLogin \/ StepPassword \/ StepAccount) =>
              /\ entries' = entries /\ active_machine' = active_machine
              /\ IF InDefaultSection(tokens, i)
                 THEN /\ active_entry' = active_entry
                      /\ default' = [default EXCEPT ![FieldOf(tokens[i].kind)] =
                                                        ArgString(tokens, i + 1)]
                 ELSE /\ default' = default
                      /\ active_entry' = [active_entry EXCEPT ![FieldOf(tokens[i].kind)] =
                                                                  ArgString(tokens, i + 1)]
       /\ StepDefault =>
              /\ entries' = entries /\ active_machine' = active_machine
              /\ active_entry' = active_entry /\ default' = default
       /\ SectionsResolve']_vars

\* A machine block for the queried host assigns a field, a default section
\* after it assigns one too, and the host resolves to its own record.
C17_Witness ==
    /\ pc = "idle" /\ config # {} /\ AllWellFormed(tokens)
    /\ \E k \in BlocksFor(tokens, host) :
           /\ BlockRecord(tokens, k) # RawEntryDefault
           /\ \E p \in DefaultFields(tokens) : k < p /\ p < BlockEnd(tokens, k)
    /\ Cfg.default # {}
    /\ host \in DOMAIN Cfg.entries
    /\ Cfg.default # {Cfg.entries[host]}
    /\ ReturnedValue = FromRecord(kind, Cfg.entries[host])

----------------------------------------------------------------------------
(* C18: when the word after `machine` fails host normalization, no error   *)
(* is raised and no entry is created for that block: its field assignments *)
(* are never committed under any host, the block pending before the header *)
(* is still committed with its own fields, and a later well-formed machine *)
(* block resolves normally.                                                *)

\* The headers whose word is there and is not accepted as a host.
BadHeaders(toks) == {k \in Headers(toks) : k + 1 <= Len(toks) /\ HeaderHost(toks, k) = {}}

\* The well-formed blocks for host h.
GoodBlocksFor(toks, h) == {k \in BlocksFor(toks, h) : WellFormed(toks, k)}

C18_RejectedHostBlockDropped ==
    (Parsed /\ BadHeaders(tokens) # {} /\ KeywordsAt(tokens, "Default") = {}
        /\ \A k \in Headers(tokens) : Strays(tokens, k) = {}) =>
        /\ reads = 1 => result = {ResOk(Resolve(kind, Cfg, host))}
        /\ DOMAIN Cfg.entries = HeaderHosts(tokens)
        /\ \A h \in HeaderHosts(tokens) :
               Cfg.entries[h] = BlockRecord(tokens, Greatest(GoodBlocksFor(tokens, h)))

\* A block with fields and a rejected host word stands between two well-formed
\* blocks with fields; those two have their entries, and no entry has the
\* rejected block's record.
C18_Witness ==
    /\ Parsed /\ reads = 1 /\ Returned
    /\ \E b \in BadHeaders(tokens) :
           /\ BlockRecord(tokens, b) # RawEntryDefault
           /\ \E k \in Headers(tokens), m \in Headers(tokens) :
                  /\ k < b /\ b < m
                  /\ WellFormed(tokens, k) /\ WellFormed(tokens, m)
                  /\ BlockRecord(tokens, k) # RawEntryDefault
                  /\ BlockRecord(tokens, k) # BlockRecord(tokens, b)
                  /\ HeaderHost(tokens, k) # HeaderHost(tokens, m)
                  /\ \A h \in HeaderHost(tokens, k) :
                         h \in DOMAIN Cfg.entries /\ Cfg.entries[h] = BlockRecord(tokens, k)
                  /\ \A h \in HeaderHost(tokens, m) :
                         h \in DOMAIN Cfg.entries /\ Cfg.entries[h] = BlockRecord(tokens, m)

----------------------------------------------------------------------------
(* The literal text of the tokens: for every token tokenize pushes, the    *)
(* characters of the input it was made of.                                 *)

RECURSIVE literals_loop(_, _)
literals_loop(s, lits) ==
    LET t == Drop(s, WsLen(s))
        r == token(t)
    IN  IF ~r.ok THEN lits
        ELSE literals_loop(r.rest,
                           IF r.out.kind = "Comment" THEN lits
                           ELSE Append(lits, SubSeq(t, 1, Len(t) - Len(r.rest))))

Literals(s) == literals_loop(s, <<>>)

\* Option<String>: the literal text of the token at position k.
LiteralAt(s, k) == IF k \in 1..Len(Literals(s)) THEN {Literals(s)[k]} ELSE {}

\* The record a field keyword assigns to in the current state.
Target == IF in_default THEN default ELSE active_entry

----------------------------------------------------------------------------
(* C19: each login/password/account keyword consumes exactly the one token *)
(* that follows it as the field value, using that token's literal text,    *)
(* whatever kind of token it is (also a keyword); the consumed token       *)
(* triggers no transition of its own: it starts no block, does not switch  *)
(* to the default section and does not invalidate the entry.  If the       *)
(* keyword is the last token of the input, the field is absent in the      *)
(* target record.                                                          *)
C19_FieldTakesNextToken ==
    [][(StepLogin \/ StepPassword \/ StepAccount) =>
           /\ i' = i + 2
           /\ Target'[FieldOf(tokens[i].kind)] = LiteralAt(input, i + 1)
           /\ i = Len(tokens) => Target'[FieldOf(tokens[i].kind)] = {}
           /\ in_default' = in_default
           /\ active_machine' = active_machine
           /\ entries' = entries]_vars

\* The part of C19 that holds: the value is the literal text of the next token
\* unless that token is a macro block.
C19_NonMacroValueIsLiteral ==
    [][(StepLogin \/ StepPassword \/ StepAccount) =>
           /\ i' = i + 2
           /\ (i < Len(tokens) /\ tokens[i + 1].kind # "MacDef") =>
                  Target'[FieldOf(tokens[i].kind)] = LiteralAt(input, i + 1)
           /\ i = Len(tokens) => Target'[FieldOf(tokens[i].kind)] = {}
           /\ in_default' = in_default
           /\ active_machine' = active_machine
           /\ entries' = entries]_vars

----------------------------------------------------------------------------
(* C20: tokenize and parse_config terminate on every finite input.  Every  *)
(* iteration of the tokenizer loop consumes at least one character of the  *)
(* remaining input or ends the loop, every iteration of the builder loop   *)
(* strictly advances the token index, and the parse reaches its end, also  *)
(* on an input whose macdef block has no terminating blank line and on an  *)
(* input that ends right after macdef, machine or a field keyword.         *)
C20_Terminates ==
    /\ [][/\ TokenizeStep => Len(rest') < Len(rest)
          /\ (StepMachine \/ StepDefault \/ StepLogin \/ StepPassword \/ StepAccount
                \/ StepIgnored \/ StepText) => (i' > i /\ tokens' = tokens)]_vars
    /\ <>(pc = "idle" /\ config # {})

\* The parse of an input that ends inside a macro body has ended.
C20_Witness ==
    /\ pc = "idle" /\ config # {}
    /\ rest = <<>> /\ i > Len(tokens)
    /\ ~Contains(input, BlankLine)
    /\ \E p \in 1..Len(tokens) : tokens[p].kind = "MacDef" /\ tokens[p].b # <<>>

----------------------------------------------------------------------------
(* The first macro block of a text, split at the word `macdef`: the text   *)
(* before it, the whitespace after it, the name and what follows the name. *)

MacroSplit(s) ==
    LET k == Least(Occurrences(s, KwMacdef))
        t == Drop(s, k + Len(KwMacdef))
        u == Drop(t, WsLen(t))
    IN  [pre |-> SubSeq(s, 1, k), gap |-> SubSeq(t, 1, WsLen(t)),
         name |-> SubSeq(u, 1, WordLen(u)), after |-> Drop(u, WordLen(u)),
         head |-> SubSeq(s, 1, Len(s) - Len(u) + WordLen(u))]

\* The text has a macro block: the whole word `macdef`, behind plain words
\* only (no comment, no word that merely starts with a keyword), and a name.
HasMacroBlock(s) ==
    /\ Contains(s, KwMacdef)
    /\ LET m == MacroSplit(s)
       IN  /\ m.pre = <<>> \/ is_whitespace(m.pre[Len(m.pre)])
           /\ NoKeywordPrefix(m.pre) /\ ~Contains(m.pre, KwComment)
           /\ m.gap # <<>> /\ m.name # <<>>

\* No blank line follows the name of the macro block.
Unterminated(s) == HasMacroBlock(s) /\ ~Contains(MacroSplit(s).after, BlankLine)

ClassifyAll(ws) == [k \in 1..Len(ws) |-> Classify(ws[k])]

----------------------------------------------------------------------------
(* C21: a macdef block with no blank line after its name swallows the rest *)
(* of the input.  The whitespace between `macdef` and the name, blank      *)
(* lines included, is skipped: the name is the next word, and the body is  *)
(* everything after the name up to the end of the input, so the tokens are *)
(* those of the words before `macdef` and then one MacDef token.  No       *)
(* machine block and no default section written after `macdef <name>` is   *)
(* committed: the configuration has the hosts, and a default record or     *)
(* none, of the input cut right after the name, and it is the              *)
(* configuration of the text before `macdef` when the macro block stands   *)
(* where no keyword takes it as its argument.                              *)
C21_UnterminatedMacroSwallowsRest ==
    (Parsed /\ Unterminated(input)) =>
        LET m == MacroSplit(input)
            cut == parse_config(m.head)
        IN  /\ tokens = ClassifyAll(Words(m.pre)) \o <<TokMacDef(m.name, m.after)>>
            /\ DOMAIN Cfg.entries = DOMAIN cut.entries
            /\ (Cfg.default = {}) <=> (cut.default = {})
            /\ Len(tokens) \in TopLevel(tokens) => Cfg = parse_config(m.pre)

\* A blank line parts `macdef` from the name, a machine block with a password
\* for the host asked for follows the name, and the lookup finds nothing.
C21_Witness ==
    /\ Parsed /\ Returned /\ reads = 1 /\ Unterminated(input)
    /\ Contains(MacroSplit(input).gap, BlankLine)
    /\ Contains(MacroSplit(input).after, KwMachine \o Sp \o host \o PasswordP)
    /\ host \notin DOMAIN Cfg.entries
    /\ ReturnedValue = {}

====
